---- MODULE Spec2Model ----
(***************************************************************************)
(* Intent recognition and continuous learning of the Ghost assistant       *)
(* (Backend/IntentRecognizer.py): the queries log, the training_data       *)
(* table, the pickled model file and the in-memory classifier.             *)
(*                                                                         *)
(* Python strings are sequences of one-character strings, so that lower(), *)
(* strip(), re.sub, split and the substring test are computed, not assumed.*)
(* Confidences are in hundredths (0.6 is 60).  SQLite statements succeed   *)
(* on the thread that opened the connection and raise on any other thread; *)
(* what else may fail is the classifier (fit, predict), the write of the   *)
(* model file and the process itself.                                      *)
(***************************************************************************)
EXTENDS Integers, Sequences, FiniteSets, TLC

(* ------------------------------ strings -------------------------------- *)

UpperChars ==
  <<"A","B","C","D","E","F","G","H","I","J","K","L","M",
    "N","O","P","Q","R","S","T","U","V","W","X","Y","Z">>

LowerChars ==
  <<"a","b","c","d","e","f","g","h","i","j","k","l","m",
    "n","o","p","q","r","s","t","u","v","w","x","y","z">>

Digits == {"0","1","2","3","4","5","6","7","8","9"}

IsUpper(c) == \E i \in 1..Len(UpperChars) : UpperChars[i] = c

LowerChar(c) ==
  IF IsUpper(c)
    THEN LowerChars[CHOOSE i \in 1..Len(UpperChars) : UpperChars[i] = c]
    ELSE c

\* str.lower()
Lower(s) == [i \in 1..Len(s) |-> LowerChar(s[i])]

\* \s of the re module, and the characters str.strip() / str.split() remove
IsSpace(c) == c \in {" ", "\t", "\n"}

\* \w of the re module
IsWordChar(c) ==
  \/ IsUpper(c)
  \/ \E i \in 1..Len(LowerChars) : LowerChars[i] = c
  \/ c \in Digits
  \/ c = "_"

RECURSIVE LStrip(_)
LStrip(s) == IF s # <<>> /\ IsSpace(Head(s)) THEN LStrip(Tail(s)) ELSE s

RECURSIVE RStrip(_)
RStrip(s) ==
  IF s # <<>> /\ IsSpace(s[Len(s)]) THEN RStrip(SubSeq(s, 1, Len(s) - 1)) ELSE s

\* str.strip()
Strip(s) == RStrip(LStrip(s))

\* re.sub(r'[^\w\s]', ' ', text)
PunctToSpace(s) ==
  [i \in 1..Len(s) |-> IF IsWordChar(s[i]) \/ IsSpace(s[i]) THEN s[i] ELSE " "]

\* re.sub(r'\s+', ' ', text)
RECURSIVE CollapseSpace(_)
CollapseSpace(s) ==
  IF s = <<>> THEN <<>>
  ELSE IF IsSpace(Head(s))
    THEN <<" ">> \o CollapseSpace(LStrip(s))
    ELSE <<Head(s)>> \o CollapseSpace(Tail(s))

\* the first whitespace-free run of s, s not starting with whitespace
RECURSIVE FirstWord(_)
FirstWord(s) ==
  IF s = <<>> \/ IsSpace(Head(s)) THEN <<>>
  ELSE <<Head(s)>> \o FirstWord(Tail(s))

\* str.split(): the whitespace-separated words of s
RECURSIVE Split(_)
Split(s) ==
  LET t == LStrip(s)
      w == FirstWord(t)
  IN IF t = <<>> THEN <<>>
     ELSE <<w>> \o Split(SubSeq(t, Len(w) + 1, Len(t)))

\* ' '.join(words)
RECURSIVE Join(_)
Join(ws) ==
  IF ws = <<>> THEN <<>>
  ELSE IF Len(ws) = 1 THEN ws[1]
  ELSE ws[1] \o <<" ">> \o Join(Tail(ws))

\* needle in hay (Python substring test)
Contains(hay, needle) ==
  \E i \in 0..(Len(hay) - Len(needle)) :
     SubSeq(hay, i + 1, i + Len(needle)) = needle

RECURSIVE SelectLong(_)
SelectLong(ws) ==
  IF ws = <<>> THEN <<>>
  ELSE IF Len(Head(ws)) > 2
    THEN <<Head(ws)>> \o SelectLong(Tail(ws))
    ELSE SelectLong(Tail(ws))

\* a normalizer that drops the short words before it replaces punctuation
PreprocessText_FilterFirst(text) ==
  LET t1 == Strip(Lower(text))
      t2 == Join(SelectLong(Split(t1)))
  IN Strip(CollapseSpace(PunctToSpace(t2)))

\* IntentRecognizer._preprocess_text
PreprocessText(text) ==
  LET t1 == Strip(Lower(text))
      t2 == PunctToSpace(t1)
      t3 == CollapseSpace(t2)
  IN Join(SelectLong(Split(t3)))

(* --------------------- the tables of the source ------------------------ *)

s_unknown == <<"u", "n", "k", "n", "o", "w", "n">>

s_error == <<"e", "r", "r", "o", "r">>

s_get_time == <<"g", "e", "t", "_", "t", "i", "m", "e">>

s_get_weather == <<"g", "e", "t", "_", "w", "e", "a", "t", "h", "e", "r">>

s_system_info == <<"s", "y", "s", "t", "e", "m", "_", "i", "n", "f", "o">>

s_greeting == <<"g", "r", "e", "e", "t", "i", "n", "g">>

s_exit == <<"e", "x", "i", "t">>

s_get_info == <<"g", "e", "t", "_", "i", "n", "f", "o">>

s_what_is_your_name == <<"w", "h", "a", "t", " ", "i", "s", " ", "y", "o", "u", "r", " ", "n", "a", "m", "e">>

s_who_created_you == <<"w", "h", "o", " ", "c", "r", "e", "a", "t", "e", "d", " ", "y", "o", "u">>

s_who_made_you == <<"w", "h", "o", " ", "m", "a", "d", "e", " ", "y", "o", "u">>

s_what_can_you_do == <<"w", "h", "a", "t", " ", "c", "a", "n", " ", "y", "o", "u", " ", "d", "o">>

s_your_purpose == <<"y", "o", "u", "r", " ", "p", "u", "r", "p", "o", "s", "e">>

s_your_name == <<"y", "o", "u", "r", " ", "n", "a", "m", "e">>

s_creator == <<"c", "r", "e", "a", "t", "o", "r">>

s_capabilities == <<"c", "a", "p", "a", "b", "i", "l", "i", "t", "i", "e", "s">>

s_terminate == <<"t", "e", "r", "m", "i", "n", "a", "t", "e">>

\* IntentRecognizer.common_patterns, in the dict's insertion order
common_patterns ==
  << <<s_greeting,
        <<<<"h", "e", "l", "l", "o">>,
          <<"h", "i">>,
          <<"h", "e", "y">>>> >>,
     <<s_get_time,
        <<<<"t", "i", "m", "e">>,
          <<"c", "l", "o", "c", "k">>,
          <<"w", "h", "a", "t", " ", "t", "i", "m", "e">>>> >>,
     <<s_get_weather,
        <<<<"w", "e", "a", "t", "h", "e", "r">>,
          <<"f", "o", "r", "e", "c", "a", "s", "t">>,
          <<"t", "e", "m", "p", "e", "r", "a", "t", "u", "r", "e">>>> >>,
     <<s_system_info,
        <<<<"w", "h", "o", " ", "m", "a", "d", "e">>,
          <<"c", "r", "e", "a", "t", "e", "d">>,
          <<"w", "h", "a", "t", " ", "a", "r", "e", " ", "y", "o", "u">>,
          <<"y", "o", "u", "r", " ", "n", "a", "m", "e">>>> >>,
     <<s_exit,
        <<<<"e", "x", "i", "t">>,
          <<"q", "u", "i", "t">>,
          <<"s", "t", "o", "p">>,
          <<"g", "o", "o", "d", "b", "y", "e">>,
          <<"g", "o", " ", "t", "o", " ", "s", "l", "e", "e", "p">>,
          <<"s", "h", "u", "t", " ", "d", "o", "w", "n">>,
          <<"I", " ", "a", "m", " ", "d", "o", "n", "e">>,
          <<"y", "o", "u", " ", "c", "a", "n", " ", "s", "t", "o", "p", " ", "n", "o", "w">>>> >>,
     <<s_get_info,
        <<<<"w", "h", "o", " ", "i", "s">>,
          <<"w", "h", "e", "r", "e", " ", "i", "s">>,
          <<"w", "h", "a", "t", " ", "i", "s">>,
          <<"h", "o", "w">>,
          <<"f", "i", "n", "d">>,
          <<"s", "h", "o", "w", " ", "m", "e">>>> >> >>

\* the initial examples of _add_initial_examples, in order
test_phrases ==
  << <<<<"w", "h", "a", "t", " ", "t", "i", "m", "e", " ", "i", "s", " ", "i", "t", " ", "n", "o", "w">>,
        s_get_time>>,
     <<<<"c", "u", "r", "r", "e", "n", "t", " ", "t", "i", "m", "e">>,
        s_get_time>>,
     <<<<"w", "h", "a", "t", "'", "s", " ", "t", "h", "e", " ", "c", "u", "r", "r", "e", "n", "t", " ", "t", "i", "m", "e">>,
        s_get_time>>,
     <<<<"t", "e", "l", "l", " ", "m", "e", " ", "t", "h", "e", " ", "t", "i", "m", "e">>,
        s_get_time>>,
     <<<<"w", "h", "a", "t", "'", "s", " ", "t", "h", "e", " ", "t", "i", "m", "e">>,
        s_get_time>>,
     <<<<"h", "e", "l", "l", "o", " ", "t", "h", "e", "r", "e">>,
        s_greeting>>,
     <<<<"h", "i">>,
        s_greeting>>,
     <<<<"h", "e", "y">>,
        s_greeting>>,
     <<<<"h", "o", "w", "d", "y">>,
        s_greeting>>,
     <<<<"g", "o", "o", "d", " ", "m", "o", "r", "n", "i", "n", "g">>,
        s_greeting>>,
     <<<<"g", "o", "o", "d", " ", "a", "f", "t", "e", "r", "n", "o", "o", "n">>,
        s_greeting>>,
     <<<<"g", "o", "o", "d", " ", "e", "v", "e", "n", "i", "n", "g">>,
        s_greeting>>,
     <<<<"w", "h", "a", "t", "'", "s", " ", "t", "h", "e", " ", "w", "e", "a", "t", "h", "e", "r", " ", "i", "n", " ", "L", "o", "n", "d", "o", "n">>,
        s_get_weather>>,
     <<<<"t", "e", "l", "l", " ", "m", "e", " ", "t", "h", "e", " ", "t", "e", "m", "p", "e", "r", "a", "t", "u", "r", "e">>,
        s_get_weather>>,
     <<<<"h", "o", "w", "'", "s", " ", "t", "h", "e", " ", "w", "e", "a", "t", "h", "e", "r", " ", "l", "o", "o", "k", "i", "n", "g", " ", "t", "o", "d", "a", "y">>,
        s_get_weather>>,
     <<<<"w", "i", "l", "l", " ", "i", "t", " ", "r", "a", "i", "n", " ", "t", "o", "m", "o", "r", "r", "o", "w", " ", "i", "n", " ", "P", "a", "r", "i", "s">>,
        s_get_weather>>,
     <<<<"w", "e", "a", "t", "h", "e", "r", " ", "i", "n", " ", "D", "e", "l", "h", "i">>,
        s_get_weather>>,
     <<<<"t", "e", "m", "p", "e", "r", "a", "t", "u", "r", "e", " ", "i", "n", " ", "M", "u", "m", "b", "a", "i">>,
        s_get_weather>>,
     <<<<"i", "s", " ", "i", "t", " ", "s", "u", "n", "n", "y", " ", "i", "n", " ", "N", "e", "w", " ", "Y", "o", "r", "k">>,
        s_get_weather>>,
     <<<<"w", "e", "a", "t", "h", "e", "r", " ", "f", "o", "r", " ", "p", "a", "u", "d", "i", " ", "g", "a", "r", "h", "w", "a", "l">>,
        s_get_weather>>,
     <<<<"h", "o", "w", " ", "i", "s", " ", "t", "h", "e", " ", "w", "e", "a", "t", "h", "e", "r", " ", "t", "o", "d", "a", "y">>,
        s_get_weather>>,
     <<<<"w", "e", "a", "t", "h", "e", "r">>,
        s_get_weather>>,
     <<<<"w", "h", "o", " ", "m", "a", "d", "e", " ", "y", "o", "u">>,
        s_system_info>>,
     <<<<"w", "h", "a", "t", " ", "c", "a", "n", " ", "y", "o", "u", " ", "d", "o">>,
        s_system_info>>,
     <<<<"t", "e", "l", "l", " ", "m", "e", " ", "a", "b", "o", "u", "t", " ", "y", "o", "u", "r", "s", "e", "l", "f">>,
        s_system_info>>,
     <<<<"w", "h", "a", "t", " ", "i", "s", " ", "y", "o", "u", "r", " ", "p", "u", "r", "p", "o", "s", "e">>,
        s_system_info>>,
     <<<<"w", "h", "a", "t", " ", "i", "s", " ", "y", "o", "u", "r", " ", "n", "a", "m", "e">>,
        s_system_info>>,
     <<<<"w", "h", "o", " ", "c", "r", "e", "a", "t", "e", "d", " ", "y", "o", "u">>,
        s_system_info>>,
     <<<<"a", "b", "o", "u", "t", " ", "y", "o", "u", "r", "s", "e", "l", "f">>,
        s_system_info>>,
     <<<<"e", "x", "i", "t", " ", "t", "h", "e", " ", "p", "r", "o", "g", "r", "a", "m">>,
        s_exit>>,
     <<<<"s", "t", "o", "p", " ", "l", "i", "s", "t", "e", "n", "i", "n", "g">>,
        s_exit>>,
     <<<<"t", "e", "r", "m", "i", "n", "a", "t", "e", " ", "p", "r", "o", "g", "r", "a", "m">>,
        s_exit>>,
     <<<<"g", "o", "o", "d", "b", "y", "e">>,
        s_exit>>,
     <<<<"g", "o", " ", "t", "o", " ", "s", "l", "e", "e", "p">>,
        s_exit>>,
     <<<<"s", "h", "u", "t", " ", "d", "o", "w", "n">>,
        s_exit>>,
     <<<<"I", " ", "a", "m", " ", "d", "o", "n", "e">>,
        s_exit>>,
     <<<<"y", "o", "u", " ", "c", "a", "n", " ", "s", "t", "o", "p", " ", "n", "o", "w">>,
        s_exit>>,
     <<<<"q", "u", "i", "t">>,
        s_exit>>,
     <<<<"w", "h", "o", " ", "i", "s", " ", "A", "l", "b", "e", "r", "t", " ", "E", "i", "n", "s", "t", "e", "i", "n">>,
        s_get_info>>,
     <<<<"w", "h", "a", "t", " ", "i", "s", " ", "t", "h", "e", " ", "c", "a", "p", "i", "t", "a", "l", " ", "o", "f", " ", "F", "r", "a", "n", "c", "e">>,
        s_get_info>>,
     <<<<"w", "h", "e", "r", "e", " ", "i", "s", " ", "t", "h", "e", " ", "E", "i", "f", "f", "e", "l", " ", "T", "o", "w", "e", "r">>,
        s_get_info>>,
     <<<<"h", "o", "w", " ", "d", "o", "e", "s", " ", "a", " ", "v", "o", "l", "c", "a", "n", "o", " ", "e", "r", "u", "p", "t">>,
        s_get_info>>,
     <<<<"f", "i", "n", "d", " ", "i", "n", "f", "o", "r", "m", "a", "t", "i", "o", "n", " ", "a", "b", "o", "u", "t", " ", "g", "r", "a", "v", "i", "t", "y">>,
        s_get_info>>,
     <<<<"s", "h", "o", "w", " ", "m", "e", " ", "f", "a", "c", "t", "s", " ", "a", "b", "o", "u", "t", " ", "s", "p", "a", "c", "e">>,
        s_get_info>>,
     <<<<"t", "e", "l", "l", " ", "m", "e", " ", "a", "b", "o", "u", "t", " ", "a", "r", "t", "i", "f", "i", "c", "i", "a", "l", " ", "i", "n", "t", "e", "l", "l", "i", "g", "e", "n", "c", "e">>,
        s_get_info>>,
     <<<<"w", "h", "o", " ", "i", "s", " ", "H", "o", "n", "e", "y", " ", "S", "i", "n", "g", "h">>,
        s_get_info>>,
     <<<<"w", "h", "o", " ", "i", "s", " ", "n", "a", "r", "e", "n", "d", "r", "a", " ", "m", "o", "d", "i">>,
        s_get_info>> >>

(* ------------------------- values and inputs --------------------------- *)

\* Python's None / SQL NULL, and a present string value
None == [some |-> FALSE, val |-> <<>>]

Some(v) == [some |-> TRUE, val |-> v]

\* self.confidence_threshold (0.6) and the fallback boost (0.8), in hundredths
confidence_threshold == 60

FallbackBoost == 80

\* self.min_samples_per_class
min_samples_per_class == 3

\* raw utterances offered to predict_intent / provide_feedback / add_training_example
t_empty == <<>>

t_spaces == <<" ", " ">>

t_hi == <<"h", "i">>

t_Hello == <<"H", "e", "l", "l", "o", "!">>

t_xyzzy == <<"x", "y", "z", "z", "y">>

t_goodbye == <<"g", "o", "o", "d", "b", "y", "e">>

t_PlayIt == <<"P", "l", "a", "y", " ", "i", "t", "!">>

Texts == {t_empty, t_hi, t_Hello, t_xyzzy}

\* ... those offered where the recognizer learns
LearnTexts == {t_spaces, t_hi, t_PlayIt}

\* labels offered as correct_intent / intent
l_blank == <<" ">>

l_Exit == <<"E", "x", "i", "t">>

l_music == <<"m", "u", "s", "i", "c">>

InputLabels == {l_blank, l_Exit, l_music}

\* ... and those offered where the rows of training_data are looked at
l_Unknown == <<"U", "n", "k", "n", "o", "w", "n">>

StoreLabels == {l_blank, l_Exit, l_Unknown}

StoreTexts == {t_hi, t_PlayIt}

\* arguments of provide_feedback around its validation
l_empty == <<>>

RejectTexts == {t_empty, t_spaces, t_hi}

RejectLabels == {l_empty, l_blank, l_Exit}

\* str.upper()
UpperChar(c) ==
  IF \E i \in 1..Len(LowerChars) : LowerChars[i] = c
    THEN UpperChars[CHOOSE i \in 1..Len(LowerChars) : LowerChars[i] = c]
    ELSE c

Upper(s) == [i \in 1..Len(s) |-> UpperChar(s[i])]

\* utterances that are a trigger phrase of common_patterns: every phrase as
\* it is listed, and the first phrase of every label in upper case
PhraseTexts ==
  UNION {{common_patterns[j][2][k] : k \in 1..Len(common_patterns[j][2])} :
           j \in 1..Len(common_patterns)}
    \cup {Upper(common_patterns[j][2][1]) : j \in 1..Len(common_patterns)}

\* arguments of _fallback_intent: one or two of these words. "This" holds the
\* trigger "hi"; "xyzzy" holds none
w_hello == <<"h", "e", "l", "l", "o">>

w_This == <<"T", "h", "i", "s">>

w_clock == <<"c", "l", "o", "c", "k">>

w_weather == <<"w", "e", "a", "t", "h", "e", "r">>

w_created == <<"c", "r", "e", "a", "t", "e", "d">>

w_STOP == <<"S", "T", "O", "P">>

w_find == <<"f", "i", "n", "d">>

w_xyzzy == <<"x", "y", "z", "z", "y">>

\* arguments of _preprocess_text: up to MaxPieces of these pieces in a row: a
\* word with an upper-case letter, a short word, a word with a digit and an
\* underscore, a run of white space, and punctuation
p_Abc == <<"A", "b", "c">>

p_de == <<"d", "e">>

p_f_1 == <<"f", "_", "1">>

p_tabs == <<"\t", " ", "\n">>

p_bang == <<"!">>

Pieces == {p_Abc, p_de, p_f_1, p_tabs, p_bang}

RECURSIVE Flatten(_)
Flatten(ps) == IF ps = <<>> THEN <<>> ELSE Head(ps) \o Flatten(Tail(ps))

MatchWords == {w_hello, w_This, w_clock, w_weather, w_created, w_STOP, w_find, w_xyzzy}

MatchTexts == MatchWords \cup {a \o <<" ">> \o b : a \in MatchWords, b \in MatchWords}

\* the texts logged, and the feedback given, where the log under feedback is
\* looked at: "hi" normalizes to nothing and ("goodbye", "exit") is an initial
\* example, so none of these calls adds a training_data row
LogTexts == {t_hi, t_goodbye}

LogFeedback == {<<t_hi, l_Exit>>, <<t_hi, l_music>>, <<t_goodbye, l_Exit>>}

\* what the fitted classifier may answer: a label it was fitted on and a
\* calibrated probability, or an exception out of predict / predict_proba
ConfValues == {30, 60}

SampleLabels == {s_exit, s_error}

\* the confidence passed to _fallback_intent: 0.0 (lines 322, 347) or the
\* classifier's (line 331)
MatchConfidences == {0} \cup ConfValues

(* ------------------------------ bounds --------------------------------- *)

\* rows of the queries log
MaxQueries == 2

\* training_data rows beyond the initial examples
MaxExtra == 2

\* seconds of CURRENT_TIMESTAMP that pass
MaxClock == 1

\* pieces a text passed to _preprocess_text is made of
MaxPieces == 3

\* listen cycles of the assistant's loop
MaxListens == 3

PieceTexts == UNION {{Flatten(ps) : ps \in [1..n -> Pieces]} : n \in 0..MaxPieces}

(* --------------------------- pure functions ---------------------------- *)

\* the 4-tuple (intent, entity, intent_type, confidence)
Tuple4(i, e, ty, c) == [intent |-> i, entity |-> e, intent_type |-> ty, confidence |-> c]

\* the entity of get_weather (_extract_location) and of get_info (the regular
\* expression of _resolve_intent) is not computed: one opaque value per text
\* stands for the string, or the None, that the regular expressions yield
Extracted(text) == Some(<<"entity-of">> \o text)

\* IntentRecognizer._resolve_intent: <<intent, entity, intent_type>>
ResolveIntent(intent, text) ==
  LET text_lower == Lower(text) IN
  IF intent = s_get_time THEN <<intent, None, "time_query">>
  ELSE IF intent = s_get_weather THEN <<intent, Extracted(text), "weather_query">>
  ELSE IF intent = s_system_info THEN
    <<intent,
      IF Contains(text_lower, s_what_is_your_name) THEN Some(s_your_name)
      ELSE IF Contains(text_lower, s_who_created_you) \/ Contains(text_lower, s_who_made_you)
        THEN Some(s_creator)
      ELSE IF Contains(text_lower, s_what_can_you_do) \/ Contains(text_lower, s_your_purpose)
        THEN Some(s_capabilities)
      ELSE None,
      "system_query">>
  ELSE IF intent = s_greeting THEN <<intent, None, "greeting">>
  ELSE IF intent = s_exit THEN <<intent, Some(s_terminate), "exit_command">>
  ELSE IF intent = s_get_info THEN <<intent, Extracted(text), "information_query">>
  ELSE <<intent, None, "unknown">>

\* a fallback that hands the confidence through
Max_First(a, b) == a

\* max(confidence, 0.8), line 360
Max(a, b) == IF a >= b THEN a ELSE b

\* any(trigger in clean_text for trigger in triggers)
AnyTrigger(triggers, clean_text) ==
  \E k \in 1..Len(triggers) : Contains(clean_text, triggers[k])

\* a matcher in which the last label of the table with a trigger wins
FallbackIntent_LastHit(text, confidence) ==
  LET clean_text == Lower(text)
      hits == {j \in 1..Len(common_patterns) : AnyTrigger(common_patterns[j][2], clean_text)}
  IN IF hits # {}
       THEN LET last == CHOOSE j \in hits : \A k \in hits : j >= k
                r == ResolveIntent(common_patterns[last][1], text)
            IN Tuple4(r[1], r[2], r[3], Max(confidence, FallbackBoost))
       ELSE Tuple4(s_unknown, None, "unknown", confidence)

\* IntentRecognizer._fallback_intent
FallbackIntent(text, confidence) ==
  LET clean_text == Lower(text)
      hits == {j \in 1..Len(common_patterns) : AnyTrigger(common_patterns[j][2], clean_text)}
  IN IF hits # {}
       THEN LET first == CHOOSE j \in hits : \A k \in hits : j <= k
                r == ResolveIntent(common_patterns[first][1], text)
            IN Tuple4(r[1], r[2], r[3], Max(confidence, FallbackBoost))
       ELSE Tuple4(s_unknown, None, "unknown", confidence)

\* an answer of the classifier: predict / predict_proba returned, or raised
Answer(label, conf) == [raises |-> FALSE, label |-> label, conf |-> conf]

Raises == [raises |-> TRUE, label |-> <<>>, conf |-> 0]

\* predict was not called
NoAnswer == [raises |-> FALSE, label |-> <<>>, conf |-> 0]

\* IntentRecognizer.predict_intent without its effect on the log: the path
\* taken, the 4-tuple returned, the (predicted_intent, confidence) logged, and
\* whether self.model.predict and _fallback_intent were called on the way.
\* Lines 305-312: nothing to classify
EmptyResult ==
  [path |-> "empty", ret |-> Tuple4(s_unknown, None, "unknown", 0),
   log_intent |-> s_unknown, log_conf |-> 0,
   classifier |-> FALSE, fallback |-> FALSE]

\* lines 320-322 and 339-341: no classifier
NoClassifierResult(text) ==
  LET fb == FallbackIntent(text, 0)
  IN [path |-> "no_classifier", ret |-> fb,
      log_intent |-> fb.intent, log_conf |-> fb.confidence,
      classifier |-> FALSE, fallback |-> TRUE]

\* the except branch handing the logged ("error", 0.0) back to the caller
ExceptionResult_ReturnsError(text) ==
  [path |-> "exception", ret |-> Tuple4(s_error, None, "unknown", 0),
   log_intent |-> s_error, log_conf |-> 0,
   classifier |-> TRUE, fallback |-> TRUE]

\* lines 343-347: predict or predict_proba raised
ExceptionResult(text) ==
  [path |-> "exception", ret |-> FallbackIntent(text, 0),
   log_intent |-> s_error, log_conf |-> 0,
   classifier |-> TRUE, fallback |-> TRUE]

\* the low-confidence branch handing 0.0 to the fallback
LowConfidenceResult_ZeroBase(text, confidence) ==
  LET fb == FallbackIntent(text, 0)
  IN [path |-> "low_confidence", ret |-> fb,
      log_intent |-> fb.intent, log_conf |-> fb.confidence,
      classifier |-> TRUE, fallback |-> TRUE]

\* the low-confidence branch logging the classifier's own confidence
LowConfidenceResult_RawLogged(text, confidence) ==
  LET fb == FallbackIntent(text, confidence)
  IN [path |-> "low_confidence", ret |-> fb,
      log_intent |-> fb.intent, log_conf |-> confidence,
      classifier |-> TRUE, fallback |-> TRUE]

\* lines 330-331 and 339-341: the classifier is not confident
LowConfidenceResult(text, confidence) ==
  LET fb == FallbackIntent(text, confidence)
  IN [path |-> "low_confidence", ret |-> fb,
      log_intent |-> fb.intent, log_conf |-> fb.confidence,
      classifier |-> TRUE, fallback |-> TRUE]

\* lines 332-341: the classifier is confident
ConfidentResult(text, predicted_intent, confidence) ==
  LET r == ResolveIntent(predicted_intent, text)
  IN [path |-> "confident", ret |-> Tuple4(r[1], r[2], r[3], confidence),
      log_intent |-> r[1], log_conf |-> confidence,
      classifier |-> TRUE, fallback |-> FALSE]

\* predict_intent trusting the classifier only above the threshold
PredictResult_StrictAbove(text, usable, cls) ==
  IF Strip(text) = <<>> THEN EmptyResult
  ELSE IF PreprocessText(text) = <<>> THEN EmptyResult
  ELSE IF ~usable THEN NoClassifierResult(text)
  ELSE IF cls.raises THEN ExceptionResult(text)
  ELSE IF cls.conf <= confidence_threshold THEN LowConfidenceResult(text, cls.conf)
  ELSE ConfidentResult(text, cls.label, cls.conf)

\* usable: is_trained and model is not None; cls: the classifier's answer
PredictResult(text, usable, cls) ==
  IF Strip(text) = <<>> THEN EmptyResult
  ELSE IF PreprocessText(text) = <<>> THEN EmptyResult
  ELSE IF ~usable THEN NoClassifierResult(text)
  ELSE IF cls.raises THEN ExceptionResult(text)
  ELSE IF cls.conf < confidence_threshold THEN LowConfidenceResult(text, cls.conf)
  ELSE ConfidentResult(text, cls.label, cls.conf)

\* the thread that ran sqlite3.connect (line 51), and another one: GhostUI
\* builds GhostCore on the GUI thread and runs its loop on a QThread
creator == "creator"

worker == "worker"

Threads == {creator, worker}

\* IntentRecognizer._log_query: INSERT INTO queries ... ; commit. On a thread
\* other than the connection's, execute raises sqlite3.ProgrammingError, which
\* the except clause (line 373) logs and drops
LogQuery(qs, text, predicted_intent, confidence, now, thread) ==
  IF thread = creator
    THEN Append(qs, [text |-> text, predicted_intent |-> predicted_intent,
                     correct_intent |-> None, confidence |-> confidence,
                     timestamp |-> now])
    ELSE qs

(* ------------------------------- state --------------------------------- *)

VARIABLES
  pc,            \* where the owning thread is: "off" (no process), "idle", or a
                 \* step of _train_and_save_model: "train", "fit", "save", "dump", "close"
  model,         \* self.model
  is_trained,    \* self.is_trained
  training_data, \* table training_data (every insert is committed at once)
  queries,       \* table queries as the connection sees it
  queries_disk,  \* table queries as committed to intents.db
  model_file,    \* intent_model.pkl
  clock,         \* the second CURRENT_TIMESTAMP reads
  call,          \* the call the owning thread is in, or the last one it finished
  reader,        \* a predict_intent call on a second thread
  last_saved,    \* history: the last pickle that _save_model wrote to its end
  core           \* GhostCore: its flags, its loop and the connection it closes

vars == <<pc, model, is_trained, training_data, queries, queries_disk,
          model_file, clock, call, reader, last_saved, core>>

\* self.model: None, the unfitted Pipeline of _create_new_model, a Pipeline
\* fitted on the first n rows of training_data, or a Pipeline that fit() is
\* rewriting in place (or left half-rewritten by a fit() that raised)
NoModel == [kind |-> "none", n |-> 0, labels |-> {}]

Unfitted == [kind |-> "unfitted", n |-> 0, labels |-> {}]

Fitting(m) == [kind |-> "fitting", n |-> m.n, labels |-> m.labels]

\* intent_model.pkl: no file, a file of size 0 (just opened 'wb'), the head of
\* a pickle, or a whole pickle of a fitted Pipeline
FileAbsent == [kind |-> "absent", n |-> 0, labels |-> {}]

FileEmpty == [kind |-> "empty", n |-> 0, labels |-> {}]

FilePartial == [kind |-> "partial", n |-> 0, labels |-> {}]

\* IntentRecognizer._model_exists
ModelExists(f) == f.kind \notin {"absent", "empty"}

\* no call yet in this process
NoCall ==
  [op |-> "none", done |-> TRUE, text |-> <<>>, label |-> <<>>, path |-> "",
   ret |-> Tuple4(<<>>, None, "", 0), ok |-> FALSE, inserted |-> FALSE,
   train |-> "none", save |-> "none", was_trained |-> FALSE,
   classifier |-> FALSE, fallback |-> FALSE, cls |-> NoAnswer]

\* no GhostCore.run_async_loop yet: the flags as the constructors set them
\* (GhostCore.py line 35, GhostVoiceRecognizer.py line 28), nothing heard, the
\* connection of the recognizer open
NoCore ==
  [pc |-> "none", thread |-> creator, is_running |-> FALSE, is_active |-> FALSE,
   heard |-> None, listens |-> 0, processed |-> "none", was_active |-> FALSE,
   open |-> TRUE, closes |-> 0]

ReaderIdle == [pc |-> "idle", text |-> <<>>, label_from |-> NoModel, conf_from |-> NoModel]

\* table training_data: the block of rows that _add_initial_examples inserts
\* into the empty table (present or not), followed by the rows inserted since.
\* No statement of the source updates or deletes a row of this table
NoRows == [seeded |-> FALSE, rest |-> <<>>]

\* IntentRecognizer._add_single_training_example_to_db: its return value
AddSingleOk(text, intent) == PreprocessText(text) # <<>> /\ Strip(intent) # <<>>

\* a row holding the text as it was passed
NewRow_RawText(text, intent, source) ==
  [text |-> text, intent |-> Lower(intent), source |-> source]

\* ... and the row it inserts
NewRow(text, intent, source) ==
  [text |-> PreprocessText(text), intent |-> Lower(intent), source |-> source]

\* ... and the table afterwards
AddSingle(td, text, intent, source) ==
  IF AddSingleOk(text, intent)
    THEN [td EXCEPT !.rest = Append(@, NewRow(text, intent, source))]
    ELSE td

\* the phrases of test_phrases that _add_single_training_example_to_db accepts
Accepted == {i \in 1..Len(test_phrases) : AddSingleOk(test_phrases[i][1], test_phrases[i][2])}

\* the rows that the loop of _add_initial_examples (lines 269-270) inserts
InitialRows ==
  [k \in 1..Cardinality(Accepted) |->
     LET i == CHOOSE i \in Accepted : Cardinality({j \in Accepted : j <= i}) = k
     IN NewRow(test_phrases[i][1], test_phrases[i][2], "initial")]

\* SELECT * FROM training_data, in id order
Rows(td) == (IF td.seeded THEN InitialRows ELSE <<>>) \o td.rest

\* SELECT COUNT(*) FROM training_data
NumRows(td) == (IF td.seeded THEN Len(InitialRows) ELSE 0) + Len(td.rest)

\* a seeding that starts the table afresh
AddInitialExamples_Reseed(td) == [seeded |-> TRUE, rest |-> <<>>]

\* IntentRecognizer._add_initial_examples
AddInitialExamples(td) == IF NumRows(td) = 0 THEN [seeded |-> TRUE, rest |-> <<>>] ELSE td

\* set(labels) and Counter(labels)[intent] over a sequence of rows
LabelsIn(rows) == {rows[i].intent : i \in 1..Len(rows)}

CountIn(rows, intent) == Cardinality({i \in 1..Len(rows) : rows[i].intent = intent})

\* those of the initial block, computed once
SeedLabels == LabelsIn(InitialRows)

SeedCount == [l \in SeedLabels |-> CountIn(InitialRows, l)]

SeedPairs == {<<InitialRows[i].text, InitialRows[i].intent>> : i \in 1..Len(InitialRows)}

\* SELECT COUNT(DISTINCT intent) / SELECT intent, COUNT(*) ... GROUP BY intent
LabelsOf(td) == (IF td.seeded THEN SeedLabels ELSE {}) \cup LabelsIn(td.rest)

CountOf(td, intent) ==
  (IF td.seeded /\ intent \in SeedLabels THEN SeedCount[intent] ELSE 0)
    + CountIn(td.rest, intent)

\* a Pipeline fitted on the table
Fitted(td) == [kind |-> "fitted", n |-> NumRows(td), labels |-> LabelsOf(td)]

\* the checks of _train_model (lines 136 and 144-145) on the rows it read
EnoughLabels(td) == NumRows(td) > 0 /\ Cardinality(LabelsOf(td)) >= 2

NoSparseClass(td) == \A l \in LabelsOf(td) : CountOf(td, l) >= min_samples_per_class

\* a check that counts the labels only
ShouldRetrain_TwoLabels(td) == Cardinality(LabelsOf(td)) >= 2

\* the check of add_training_example (lines 280-291)
ShouldRetrain(td) ==
  /\ Cardinality(LabelsOf(td)) >= 2
  /\ \A l \in LabelsOf(td) : CountOf(td, l) >= min_samples_per_class

Init ==
  /\ pc = "off"
  /\ model = NoModel
  /\ is_trained = FALSE
  /\ training_data = NoRows
  /\ queries = <<>>
  /\ queries_disk = <<>>
  /\ model_file = FileAbsent
  /\ clock = 0
  /\ call = NoCall
  /\ reader = ReaderIdle
  /\ last_saved = FileAbsent
  /\ core = NoCore

(* ------------------------- training and saving ------------------------- *)

\* a call that returns whether its training succeeded
Finish_TrainingResult(c) == [c EXCEPT !.done = TRUE, !.ok = (c.train = "ok")]

\* the call in progress returns
Finish(c) == [c EXCEPT !.done = TRUE]

\* IntentRecognizer.__init__: _setup_database, then _initialize_model up to
\* its call of _train_and_save_model
Start ==
  /\ UNCHANGED core
  /\ pc = "off"
  /\ reader' = ReaderIdle
  /\ UNCHANGED <<queries, queries_disk, model_file, clock, last_saved>>
  /\ IF ModelExists(model_file)
       THEN \* _load_model, then line 85
            /\ model' = IF model_file.kind = "fitted" THEN model_file ELSE NoModel
            /\ is_trained' = TRUE
            /\ training_data' = training_data
            /\ call' = [NoCall EXCEPT !.op = "init"]
            /\ pc' = "idle"
       ELSE /\ model' = Unfitted
            /\ is_trained' = FALSE
            /\ training_data' = AddInitialExamples(training_data)
            /\ call' = [NoCall EXCEPT !.op = "init", !.done = FALSE]
            /\ pc' = "train"

\* _train_model up to its call of self.model.fit
TrainModel ==
  /\ UNCHANGED core
  /\ pc = "train"
  /\ UNCHANGED <<training_data, queries, queries_disk, model_file, clock, reader, last_saved>>
  /\ IF ~EnoughLabels(training_data)
       THEN /\ is_trained' = FALSE
            /\ model' = model
            /\ call' = Finish([call EXCEPT !.train = "insufficient"])
            /\ pc' = "idle"
     ELSE IF ~NoSparseClass(training_data)
       THEN /\ is_trained' = FALSE
            /\ model' = model
            /\ call' = Finish([call EXCEPT !.train = "sparse"])
            /\ pc' = "idle"
     ELSE IF model.kind = "none"
       THEN \* None has no fit: AttributeError, caught at line 156
            /\ is_trained' = FALSE
            /\ model' = model
            /\ call' = Finish([call EXCEPT !.train = "raised"])
            /\ pc' = "idle"
       ELSE /\ is_trained' = is_trained
            /\ model' = Fitting(model)
            /\ call' = call
            /\ pc' = "fit"

\* self.model.fit returns, and _train_model with it
FitReturns ==
  /\ UNCHANGED core
  /\ pc = "fit"
  /\ model' = Fitted(training_data)
  /\ is_trained' = TRUE
  /\ call' = [call EXCEPT !.train = "ok"]
  /\ pc' = "save"
  /\ UNCHANGED <<training_data, queries, queries_disk, model_file, clock, reader, last_saved>>

\* self.model.fit raises
FitRaises ==
  /\ UNCHANGED core
  /\ pc = "fit"
  /\ is_trained' = FALSE
  /\ call' = Finish([call EXCEPT !.train = "raised"])
  /\ pc' = "idle"
  /\ UNCHANGED <<model, training_data, queries, queries_disk, model_file, clock, reader, last_saved>>

\* _save_model: open(self.model_path, 'wb') truncates the file
SaveOpen ==
  /\ UNCHANGED core
  /\ pc = "save"
  /\ model_file' = FileEmpty
  /\ pc' = "dump"
  /\ UNCHANGED <<model, is_trained, training_data, queries, queries_disk, clock, call, reader, last_saved>>

\* open raises (caught at line 175): the file is as it was
SaveOpenFails ==
  /\ UNCHANGED core
  /\ pc = "save"
  /\ call' = Finish([call EXCEPT !.save = "failed"])
  /\ pc' = "idle"
  /\ UNCHANGED <<model, is_trained, training_data, queries, queries_disk, model_file,
                 clock, reader, last_saved>>

\* pickle.dump has written the head of the pickle
SaveDump ==
  /\ UNCHANGED core
  /\ pc = "dump"
  /\ model_file' = FilePartial
  /\ pc' = "close"
  /\ UNCHANGED <<model, is_trained, training_data, queries, queries_disk, clock, call, reader, last_saved>>

\* pickle.dump finishes and the file is closed
SaveClose ==
  /\ UNCHANGED core
  /\ pc = "close"
  /\ model_file' = model
  /\ last_saved' = model
  /\ call' = Finish([call EXCEPT !.save = "ok"])
  /\ pc' = "idle"
  /\ UNCHANGED <<model, is_trained, training_data, queries, queries_disk, clock, reader>>

\* pickle.dump raises part-way (caught at line 175)
SaveDumpFails ==
  /\ UNCHANGED core
  /\ pc = "close"
  /\ call' = Finish([call EXCEPT !.save = "failed"])
  /\ pc' = "idle"
  /\ UNCHANGED <<model, is_trained, training_data, queries, queries_disk, model_file,
                 clock, reader, last_saved>>

\* the process ends at any point (killed, or closed: close() commits nothing);
\* what is in memory and what was not committed is gone
Crash ==
  /\ pc # "off"
  /\ core' = NoCore
  /\ pc' = "off"
  /\ model' = NoModel
  /\ is_trained' = FALSE
  /\ queries' = queries_disk
  /\ call' = NoCall
  /\ reader' = ReaderIdle
  /\ UNCHANGED <<training_data, queries_disk, model_file, clock, last_saved>>

\* a second passes
Tick ==
  /\ UNCHANGED core
  /\ clock < MaxClock
  /\ clock' = clock + 1
  /\ UNCHANGED <<pc, model, is_trained, training_data, queries, queries_disk,
                 model_file, call, reader, last_saved>>

(* --------------------------- the operations ---------------------------- *)

\* what predict / predict_proba of self.model can do
ClassifierAnswers(m) ==
  IF m.kind = "fitted"
    THEN {Raises} \cup {Answer(l, c) : l \in (m.labels \cap SampleLabels), c \in ConfValues}
    ELSE {Raises}

\* line 320: the classifier is consulted
Usable(trained, m) == trained /\ m.kind # "none"

\* predict_intent(text) called on thread; the commit of _log_query is reached
\* only when its INSERT did not raise
PredictIntentCall(thread, text, cls) ==
  /\ pc = "idle"
  /\ LET r == PredictResult(text, Usable(is_trained, model), cls)
         qs == LogQuery(queries, text, r.log_intent, r.log_conf, clock, thread)
     IN /\ queries' = qs
        /\ queries_disk' = IF Len(qs) > Len(queries) THEN qs ELSE queries_disk
        /\ call' = [NoCall EXCEPT !.op = "predict", !.text = text, !.path = r.path,
                                  !.ret = r.ret, !.inserted = (Len(qs) > Len(queries)),
                                  !.was_trained = is_trained,
                                  !.classifier = r.classifier, !.fallback = r.fallback,
                                  !.cls = IF r.classifier THEN cls ELSE NoAnswer]
  /\ UNCHANGED <<pc, model, is_trained, training_data, model_file, clock, reader, last_saved>>

\* ... called on its own, the assistant's loop not running
PredictIntent(thread, text, cls) ==
  /\ PredictIntentCall(thread, text, cls)
  /\ UNCHANGED core

\* the rows the subquery of provide_feedback can return: text matches, and no
\* matching row has a later timestamp (ORDER BY timestamp DESC LIMIT 1 does not
\* order rows of one second)
UpdateTargets(qs, text) ==
  {i \in 1..Len(qs) :
     /\ qs[i].text = text
     /\ \A j \in 1..Len(qs) : qs[j].text = text => qs[j].timestamp <= qs[i].timestamp}

\* the UPDATE storing the label as it was passed
UpdateQuery_RawLabel(qs, i, correct_intent) ==
  [qs EXCEPT ![i].correct_intent = Some(correct_intent)]

\* UPDATE queries SET correct_intent = ? WHERE id = i
UpdateQuery(qs, i, correct_intent) ==
  [qs EXCEPT ![i].correct_intent = Some(Lower(correct_intent))]

\* the COUNT(*) looking for the label as it was passed
AlreadyTrained_RawLabel(td, text, correct_intent) ==
  LET clean_text == PreprocessText(text)
  IN \/ td.seeded /\ <<clean_text, correct_intent>> \in SeedPairs
     \/ \E i \in 1..Len(td.rest) :
          td.rest[i].text = clean_text /\ td.rest[i].intent = correct_intent

\* lines 397-401: SELECT COUNT(*) FROM training_data WHERE text = ? AND intent = ?
AlreadyTrained(td, text, correct_intent) ==
  LET clean_text == PreprocessText(text)
      intent == Lower(correct_intent)
  IN \/ td.seeded /\ <<clean_text, intent>> \in SeedPairs
     \/ \E i \in 1..Len(td.rest) :
          td.rest[i].text = clean_text /\ td.rest[i].intent = intent

\* add_training_example (lines 275-301) up to its call of _train_and_save_model,
\* for the call record c and with qs the queries table as the connection sees it
AddExample(c, qs, text, intent) ==
  LET ok == AddSingleOk(text, intent)
      rows == AddSingle(training_data, text, intent, "user_feedback")
  IN /\ training_data' = rows
     /\ queries' = qs
     /\ queries_disk' = IF ok THEN qs ELSE queries_disk
     /\ IF ok /\ ShouldRetrain(rows)
          THEN /\ pc' = "train"
               /\ call' = [c EXCEPT !.ok = TRUE, !.inserted = TRUE, !.done = FALSE]
          ELSE /\ pc' = "idle"
               /\ call' = [c EXCEPT !.ok = ok, !.inserted = ok,
                                    !.train = IF ok THEN "skipped" ELSE "none"]
     /\ UNCHANGED <<model, is_trained, model_file, clock, reader, last_saved>>

\* add_training_example(text, intent)
AddTrainingExample(text, intent) ==
  /\ UNCHANGED core
  /\ pc = "idle"
  /\ AddExample([NoCall EXCEPT !.op = "add", !.text = text, !.label = intent,
                               !.was_trained = is_trained],
                queries, text, intent)

\* a validation that looks at the text only
InvalidFeedback_TextOnly(text, correct_intent) == Strip(text) = <<>>

\* line 378: not text.strip() or not correct_intent.strip()
InvalidFeedback(text, correct_intent) == Strip(text) = <<>> \/ Strip(correct_intent) = <<>>

\* provide_feedback(text, correct_intent)
ProvideFeedback(text, correct_intent) ==
  /\ UNCHANGED core
  /\ pc = "idle"
  /\ LET c == [NoCall EXCEPT !.op = "feedback", !.text = text, !.label = correct_intent,
                             !.was_trained = is_trained]
     IN IF InvalidFeedback(text, correct_intent)
          THEN /\ call' = c
               /\ UNCHANGED <<pc, model, is_trained, training_data, queries, queries_disk,
                              model_file, clock, reader, last_saved>>
          ELSE \E qs \in IF UpdateTargets(queries, text) = {}
                           THEN {queries}
                           ELSE {UpdateQuery(queries, i, correct_intent) :
                                   i \in UpdateTargets(queries, text)} :
                 IF AlreadyTrained(training_data, text, correct_intent)
                   THEN /\ queries' = qs
                        /\ queries_disk' = qs
                        /\ call' = [c EXCEPT !.ok = TRUE]
                        /\ UNCHANGED <<pc, model, is_trained, training_data, model_file,
                                       clock, reader, last_saved>>
                   ELSE AddExample(c, qs, text, correct_intent)

\* _fallback_intent(text, confidence) called on its own: it reads
\* common_patterns and writes nothing
FallbackIntentCall(text, confidence) ==
  /\ UNCHANGED core
  /\ pc = "idle"
  /\ call' = [NoCall EXCEPT !.op = "fallback", !.text = text, !.fallback = TRUE,
                            !.ret = FallbackIntent(text, confidence),
                            !.cls = Answer(<<>>, confidence),
                            !.was_trained = is_trained]
  /\ UNCHANGED <<pc, model, is_trained, training_data, queries, queries_disk,
                 model_file, clock, reader, last_saved>>

\* _preprocess_text(text) called on its own; the string it returns is kept in
\* the label field of the call record
PreprocessTextCall(text) ==
  /\ UNCHANGED core
  /\ pc = "idle"
  /\ call' = [NoCall EXCEPT !.op = "preprocess", !.text = text,
                            !.label = PreprocessText(text),
                            !.was_trained = is_trained]
  /\ UNCHANGED <<pc, model, is_trained, training_data, queries, queries_disk,
                 model_file, clock, reader, last_saved>>

\* _train_and_save_model called on its own
TrainAndSaveModel ==
  /\ UNCHANGED core
  /\ pc = "idle"
  /\ pc' = "train"
  /\ call' = [NoCall EXCEPT !.op = "train", !.done = FALSE, !.was_trained = is_trained]
  /\ UNCHANGED <<model, is_trained, training_data, queries, queries_disk, model_file,
                 clock, reader, last_saved>>

(* ------------------ predict_intent on a second thread ------------------ *)

\* lines 305-325: the checks, then self.model.predict reads the model.  The
\* connection belongs to the owning thread (check_same_thread), so _log_query
\* on this thread catches sqlite3.ProgrammingError and inserts nothing
ReaderPredict(text) ==
  /\ UNCHANGED core
  /\ pc # "off"
  /\ reader.pc \in {"idle", "done"}
  /\ Strip(text) # <<>> /\ PreprocessText(text) # <<>>
  /\ Usable(is_trained, model)
  /\ reader' = [pc |-> "predicted", text |-> text, label_from |-> model, conf_from |-> NoModel]
  /\ UNCHANGED <<pc, model, is_trained, training_data, queries, queries_disk,
                 model_file, clock, call, last_saved>>

\* line 326: self.model.predict_proba reads the model
ReaderProba ==
  /\ UNCHANGED core
  /\ reader.pc = "predicted"
  /\ reader' = [reader EXCEPT !.pc = "done", !.conf_from = model]
  /\ UNCHANGED <<pc, model, is_trained, training_data, queries, queries_disk,
                 model_file, clock, call, last_saved>>

(* --------------------------- specifications ---------------------------- *)

\* the process: construction, the steps of _train_and_save_model, its end
(* ------------------ GhostCore: the assistant's main loop --------------- *)

\* GhostVoiceRecognizer.hotword: os.getenv("HOTWORD", "ghost").lower()
hotword == <<"g", "h", "o", "s", "t">>

s_deactivate == <<"d", "e", "a", "c", "t", "i", "v", "a", "t", "e">>

\* what voice.listen() returns as transcribed text: nothing, or an utterance
u_HeyGhost == <<"H", "e", "y", " ", "G", "h", "o", "s", "t">>

u_Deactivate == <<"D", "e", "a", "c", "t", "i", "v", "a", "t", "e">>

Utterances == {u_HeyGhost, u_Deactivate, t_goodbye, t_xyzzy}

Heard == {None} \cup {Some(u) : u \in Utterances}

\* the variables of the recognizer
recognizer == <<pc, model, is_trained, training_data, queries, queries_disk,
                model_file, clock, call, reader, last_saved>>

\* run_async_loop, line 246: the hotword is in the text and the assistant is
\* not active
IsActivation(heard, active) == Contains(Lower(heard.val), Lower(hotword)) /\ ~active

\* a loop that processes whatever text it hears
ShouldProcess_AnyText(heard, active) == heard.some /\ heard.val # <<>>

\* run_async_loop, line 252: self.voice.is_active and text_from_voice
ShouldProcess(heard, active) == active /\ heard.some /\ heard.val # <<>>

\* _process_command, line 82: text and text.lower() == "deactivate"
IsDeactivate(text) == Lower(text) = s_deactivate

\* run_async_loop is entered on thread (lines 221-224); GhostCore.__init__ has
\* built the recognizer before
CoreRun(thread) ==
  /\ pc = "idle"
  /\ call.op = "init"
  /\ core.pc = "none"
  /\ core' = [NoCore EXCEPT !.pc = "loop", !.thread = thread, !.is_running = TRUE]
  /\ UNCHANGED recognizer

\* line 228: while self._is_running is over
CoreLoopExit ==
  /\ core.pc = "loop"
  /\ ~core.is_running
  /\ core' = [core EXCEPT !.pc = "finally"]
  /\ UNCHANGED recognizer

\* lines 229-236: the inactivity timeout has passed
CoreTimeout ==
  /\ core.pc = "loop"
  /\ core.is_running
  /\ core' = [core EXCEPT !.pc = "finally", !.is_running = FALSE, !.is_active = FALSE,
                          !.processed = "timeout", !.was_active = core.is_active]
  /\ UNCHANGED recognizer

\* lines 239-240: a listen cycle, voice.listen() returns heard
CoreListen(heard) ==
  /\ core.pc = "loop"
  /\ core.is_running
  /\ core.listens < MaxListens
  /\ core' = [core EXCEPT !.pc = "heard", !.heard = heard, !.listens = @ + 1]
  /\ UNCHANGED recognizer

\* lines 245-262 with _process_command (lines 67-216): what was heard is
\* dispatched; cls is what the classifier answers if it is asked
CoreDispatch(cls) ==
  /\ core.pc = "heard"
  /\ IF IsActivation(core.heard, core.is_active)
       THEN /\ core' = [core EXCEPT !.pc = "loop", !.is_active = TRUE,
                                    !.processed = "activation", !.was_active = FALSE]
            /\ UNCHANGED recognizer
     ELSE IF ShouldProcess(core.heard, core.is_active)
       THEN IF IsDeactivate(core.heard.val)
              THEN /\ core' = [core EXCEPT !.pc = "loop", !.is_running = FALSE,
                                           !.is_active = FALSE,
                                           !.processed = "deactivate",
                                           !.was_active = core.is_active]
                   /\ UNCHANGED recognizer
              ELSE /\ PredictIntentCall(core.thread, core.heard.val, cls)
                   /\ core' = IF call'.ret.intent = s_exit
                                THEN [core EXCEPT !.pc = "loop", !.is_running = FALSE,
                                                  !.is_active = FALSE,
                                                  !.processed = "exit",
                                                  !.was_active = core.is_active]
                                ELSE [core EXCEPT !.pc = "loop", !.processed = "command",
                                                  !.was_active = core.is_active]
       ELSE /\ core' = [core EXCEPT !.pc = "loop", !.processed = "ignored",
                                    !.was_active = core.is_active]
            /\ UNCHANGED recognizer

\* lines 273-275: stop(), then intent_recognizer.close(); on a thread other
\* than the connection's, conn.close() raises sqlite3.ProgrammingError, which
\* close() catches (IntentRecognizer.py line 516), and the connection stays
CoreFinally ==
  /\ core.pc = "finally"
  /\ core' = [core EXCEPT !.pc = "done", !.is_running = FALSE,
                          !.closes = @ + 1,
                          !.open = IF core.thread = creator THEN FALSE ELSE @]
  /\ UNCHANGED recognizer

Lifecycle ==
  \/ Start
  \/ TrainModel
  \/ FitReturns
  \/ FitRaises
  \/ SaveOpen
  \/ SaveOpenFails
  \/ SaveDump
  \/ SaveClose
  \/ SaveDumpFails
  \/ Crash

\* the bounds: the log has room for a row; the call inserts no training row,
\* or the table has room for it
LogRoom(max) == Len(queries) < max

AddRoom(text, intent, max) ==
  AddSingleOk(text, intent) => Len(training_data.rest) < max

FeedbackRoom(text, intent, max) ==
  \/ Strip(text) = <<>>
  \/ AlreadyTrained(training_data, text, intent)
  \/ AddRoom(text, intent, max)

\* recognition: predict_intent on the owning thread
Next ==
  \/ Lifecycle
  \/ /\ LogRoom(MaxQueries)
     /\ \E thread \in Threads : \E text \in Texts : \E cls \in ClassifierAnswers(model) :
          PredictIntent(thread, text, cls)

Spec == Init /\ [][Next]_vars

\* a construction on which nothing fails
Startup ==
  \/ Start
  \/ TrainModel
  \/ FitReturns
  \/ SaveOpen
  \/ SaveDump
  \/ SaveClose

\* the log under feedback: predict_intent and provide_feedback
NextLog ==
  \/ Startup
  \/ Tick
  \/ /\ LogRoom(MaxQueries)
     /\ \E text \in LogTexts : \E cls \in ClassifierAnswers(model) :
          PredictIntent(creator, text, cls)
  \/ \E fb \in LogFeedback : ProvideFeedback(fb[1], fb[2])

SpecLog == Init /\ [][NextLog]_vars

\* learning: provide_feedback and add_training_example
NextLearn ==
  \/ Lifecycle
  \/ \E text \in LearnTexts, label \in InputLabels :
       FeedbackRoom(text, label, MaxExtra) /\ ProvideFeedback(text, label)
  \/ \E text \in LearnTexts, label \in InputLabels :
       AddRoom(text, label, MaxExtra) /\ AddTrainingExample(text, label)

SpecLearn == Init /\ [][NextLearn]_vars

\* ... with _train_and_save_model also called on its own
NextTrain == NextLearn \/ TrainAndSaveModel

SpecTrain == Init /\ [][NextTrain]_vars

\* retraining on the owning thread while predict_intent runs on a second one
NextConc ==
  \/ Lifecycle
  \/ \E text \in LearnTexts, label \in InputLabels :
       AddRoom(text, label, MaxExtra) /\ AddTrainingExample(text, label)
  \/ \E text \in LearnTexts : ReaderPredict(text)
  \/ ReaderProba

SpecConc == Init /\ [][NextConc]_vars

\* the tables: the three public calls, and the process ending and starting
\* again at any point
NextStore ==
  \/ Startup
  \/ Crash
  \/ /\ LogRoom(MaxQueries)
     /\ \E cls \in ClassifierAnswers(model) : PredictIntent(creator, t_empty, cls)
  \/ \E text \in StoreTexts, label \in StoreLabels :
       FeedbackRoom(text, label, MaxExtra) /\ ProvideFeedback(text, label)
  \/ \E text \in StoreTexts, label \in StoreLabels :
       AddRoom(text, label, MaxExtra) /\ AddTrainingExample(text, label)

SpecStore == Init /\ [][NextStore]_vars

\* validation of feedback: predict_intent logs the texts that provide_feedback
\* is then called with
NextReject ==
  \/ Startup
  \/ /\ LogRoom(MaxQueries)
     /\ \E text \in RejectTexts : \E cls \in ClassifierAnswers(model) :
          PredictIntent(creator, text, cls)
  \/ \E text \in RejectTexts, label \in RejectLabels :
       FeedbackRoom(text, label, MaxExtra) /\ ProvideFeedback(text, label)

SpecReject == Init /\ [][NextReject]_vars

\* a sentinel label taught: add_training_example with the label 'error' until
\* the label has the rows a training asks for, and predict_intent
NextSentinel ==
  \/ Startup
  \/ /\ LogRoom(MaxQueries)
     /\ \E text \in {t_Hello, t_xyzzy} : \E cls \in ClassifierAnswers(model) :
          PredictIntent(creator, text, cls)
  \/ /\ AddRoom(t_PlayIt, s_error, min_samples_per_class)
     /\ AddTrainingExample(t_PlayIt, s_error)

SpecSentinel == Init /\ [][NextSentinel]_vars

\* the assistant: the recognizer is built, then the main loop runs on the
\* thread that built it or on another one
NextCore ==
  \/ Startup
  \/ \E thread \in Threads : CoreRun(thread)
  \/ CoreLoopExit
  \/ CoreTimeout
  \/ \E heard \in Heard : CoreListen(heard)
  \/ \E cls \in ClassifierAnswers(model) : CoreDispatch(cls)
  \/ CoreFinally

SpecCore == Init /\ [][NextCore]_vars

\* no trained classifier: the first fit raised, and predict_intent is called
\* with the trigger phrases
NextPhrases ==
  \/ Start
  \/ TrainModel
  \/ FitRaises
  \/ /\ LogRoom(MaxQueries)
     /\ \E text \in PhraseTexts : \E cls \in ClassifierAnswers(model) :
          PredictIntent(creator, text, cls)

SpecPhrases == Init /\ [][NextPhrases]_vars

\* the fallback matcher on its own
NextMatch ==
  \/ Startup
  \/ \E text \in MatchTexts, confidence \in MatchConfidences :
       FallbackIntentCall(text, confidence)

SpecMatch == Init /\ [][NextMatch]_vars

\* the normalizer on its own
NextNormalize ==
  \/ Startup
  \/ \E text \in PieceTexts : PreprocessTextCall(text)

SpecNormalize == Init /\ [][NextNormalize]_vars

(* ------------------------- the query log (C1-C3) ----------------------- *)

LastQuery == queries[Len(queries)]

\* a trigger of common_patterns occurs in the lower-cased text
SomeTrigger(text) ==
  \E j \in 1..Len(common_patterns) :
    \E k \in 1..Len(common_patterns[j][2]) :
      Contains(Lower(text), common_patterns[j][2][k])

\* C1: every call of predict_intent, on whichever of its paths (empty input,
\* empty normalized text, no classifier, classifier exception, low confidence,
\* confident), appends exactly one row to the queries table before it
\* returns: the table grows by one row, the rows before it are kept, the new
\* row carries the text of the call and is committed.
C1_OneRowPerCall ==
  [][\A thread \in Threads : \A text \in Texts : \A cls \in ClassifierAnswers(model) :
       PredictIntent(thread, text, cls) =>
         /\ Len(queries') = Len(queries) + 1
         /\ SubSeq(queries', 1, Len(queries)) = queries
         /\ queries'[Len(queries')].text = text
         /\ queries'[Len(queries')].correct_intent = None
         /\ queries_disk' = queries']_vars

\* C2 as stated: the row a predict_intent call has written carries the intent
\* label and the confidence the call returned, on every path.
C2_LoggedIsReturned ==
  (call.op = "predict" /\ call.inserted) =>
    /\ LastQuery.predicted_intent = call.ret.intent
    /\ LastQuery.confidence = call.ret.confidence

\* C2, amended: the row a predict_intent call has written carries the intent
\* label and the confidence the call returned on every path but the except
\* branch; there the row is ("error", 0.0) whatever the fallback returns.
C2_LoggedIsReturnedUnlessError ==
  (call.op = "predict" /\ call.inserted) =>
    /\ LastQuery.text = call.text
    /\ IF call.path = "exception"
         THEN /\ LastQuery.predicted_intent = s_error
              /\ LastQuery.confidence = 0
         ELSE /\ LastQuery.predicted_intent = call.ret.intent
              /\ LastQuery.confidence = call.ret.confidence

\* the classifier raised on "Hello!": ("greeting", 0.8) returned, "error" logged
C2_Witness ==
  /\ call.op = "predict"
  /\ call.inserted
  /\ call.path = "exception"
  /\ call.ret.intent = s_greeting
  /\ call.ret.confidence = FallbackBoost
  /\ LastQuery.predicted_intent = s_error
  /\ LastQuery.confidence = 0

\* C3: when predict or predict_proba raises, predict_intent still returns:
\* with a trigger of common_patterns in the text the fallback's intent at
\* confidence 0.8, otherwise exactly ("unknown", None, "unknown", 0.0).
C3_ExceptionFallsBack ==
  (call.op = "predict" /\ call.path = "exception") =>
    /\ call.done
    /\ IF SomeTrigger(call.text)
         THEN /\ call.ret.confidence = FallbackBoost
              /\ call.ret.intent \notin {s_unknown, s_error}
         ELSE call.ret = Tuple4(s_unknown, None, "unknown", 0)

\* the classifier raised on a text without any trigger
C3_Witness ==
  /\ call.op = "predict"
  /\ call.path = "exception"
  /\ call.was_trained
  /\ ~SomeTrigger(call.text)
  /\ call.ret = Tuple4(s_unknown, None, "unknown", 0)

(* ------------------- training and the model (C4-C7) -------------------- *)

\* C4: a _train_model attempt that ends because the store has fewer than 2
\* labels, or because a label has fewer than min_samples_per_class rows,
\* leaves is_trained at the value it had when the attempt began.
C4_FailedTrainingKeepsIsTrained ==
  (call.done /\ call.train \in {"insufficient", "sparse"}) =>
    is_trained = call.was_trained

\* C5: while the process runs, is_trained never goes from True to False,
\* whatever provide_feedback and add_training_example calls are made and
\* however the retraining they start ends.
C5_NeverUntrained ==
  [][(is_trained /\ pc' # "off") => is_trained']_vars

\* C6: once a model has been saved to its end, every later construction of
\* the recognizer - also one after the process ended in the middle of a
\* retraining or of the write of the model file - loads that model:
\* construction is over at once, is_trained is True and self.model is the
\* model that was saved.
C6_RestartServesSavedModel ==
  (call.op = "init" /\ last_saved.kind = "fitted") =>
    /\ call.done
    /\ is_trained
    /\ model = last_saved

\* C7: a predict_intent call on a second thread takes its label (predict) and
\* its confidence (predict_proba) from one fitted model, the one before or
\* the one after a retraining that runs meanwhile.
C7_OneModelVersion ==
  reader.pc = "done" =>
    /\ reader.label_from = reader.conf_from
    /\ reader.label_from.kind = "fitted"

(* -------------------------- feedback (C8-C10) -------------------------- *)

\* the step is the call provide_feedback(text, label)
FeedbackCall(text, label) ==
  /\ pc = "idle"
  /\ call'.op = "feedback"
  /\ call'.text = text
  /\ call'.label = label
  /\ ProvideFeedback(text, label)

\* the training_data rows for the pair (normalize(text), lower(label))
PairRows(td, text, label) ==
  LET clean_text == PreprocessText(text)
      intent == Lower(label)
      rows == Rows(td)
  IN {i \in 1..Len(rows) : rows[i].text = clean_text /\ rows[i].intent = intent}

\* C8: a provide_feedback(x, L) call adds at most one training_data row, and
\* only for the pair (normalize(x), lower(L)); it adds none when the pair is
\* in the table already, and none when it follows a finished
\* provide_feedback(x, L) call, so that two calls in succession add at most
\* one row.
C8_FeedbackIdempotent ==
  [][\A text \in LearnTexts : \A label \in InputLabels :
       FeedbackCall(text, label) =>
         LET before == Cardinality(PairRows(training_data, text, label))
             after == Cardinality(PairRows(training_data', text, label))
         IN /\ after <= before + 1
            /\ NumRows(training_data') = NumRows(training_data) + (after - before)
            /\ before > 0 => training_data' = training_data
            /\ (/\ call.op = "feedback"
                /\ call.done
                /\ call.text = text
                /\ call.label = label) => training_data' = training_data]_vars

\* provide_feedback("Play it!", "Exit") returned True without inserting: the
\* row ("play", "exit") of an earlier call is the only one for the pair
C8_Witness ==
  /\ call.op = "feedback"
  /\ call.done
  /\ call.ok
  /\ ~call.inserted
  /\ call.text = t_PlayIt
  /\ call.label = l_Exit
  /\ Cardinality(PairRows(training_data, t_PlayIt, l_Exit)) = 1
  /\ \E i \in 1..Len(training_data.rest) :
       /\ training_data.rest[i].text = PreprocessText(t_PlayIt)
       /\ training_data.rest[i].source = "user_feedback"

\* the rows of the log with this text
Matching(qs, text) == {i \in 1..Len(qs) : qs[i].text = text}

\* C9: provide_feedback(text, label) with non-empty arguments sets
\* correct_intent to lower(label) on the matching row created last (the one
\* of highest id), also when matching rows share a timestamp, and changes no
\* other row; when no row matches, the log stays as it is.
C9_UpdatesMostRecent ==
  [][\A fb \in LogFeedback :
       FeedbackCall(fb[1], fb[2]) =>
         IF Matching(queries, fb[1]) = {}
           THEN queries' = queries
           ELSE LET last == CHOOSE i \in Matching(queries, fb[1]) :
                              \A j \in Matching(queries, fb[1]) : j <= i
                IN queries' = [queries EXCEPT ![last].correct_intent = Some(Lower(fb[2]))]]_vars

\* a provide_feedback step
FeedbackStep == \E fb \in LogFeedback : FeedbackCall(fb[1], fb[2])

\* C10 as stated: once feedback has set the correct_intent of a row, no
\* later provide_feedback call changes it.
C10_SetOnce ==
  [][FeedbackStep =>
       \A i \in 1..Len(queries) :
         queries[i].correct_intent # None =>
           queries'[i].correct_intent = queries[i].correct_intent]_vars

\* C10, amended: a provide_feedback(text, label) call changes the
\* correct_intent of at most one row; that row has the text of the call and
\* gets lower(label), whether or not an earlier call had set it.
C10_SetByMatchingFeedback ==
  [][\A fb \in LogFeedback :
       FeedbackCall(fb[1], fb[2]) =>
         /\ Len(queries') = Len(queries)
         /\ Cardinality({i \in 1..Len(queries) : queries'[i] # queries[i]}) <= 1
         /\ \A i \in 1..Len(queries) :
              queries'[i] # queries[i] =>
                /\ queries[i].text = fb[1]
                /\ queries'[i] = [queries[i] EXCEPT !.correct_intent = Some(Lower(fb[2]))]]_vars

\* a row whose committed correct_intent "exit" a later call has replaced
C10_Witness ==
  /\ call.op = "feedback"
  /\ call.label = l_music
  /\ \E i \in 1..Len(queries) :
       /\ i <= Len(queries_disk)
       /\ queries_disk[i].correct_intent = Some(s_exit)
       /\ queries[i].correct_intent = Some(Lower(l_music))

\* C11: no row of training_data carries one of the labels 'unknown' and
\* 'error', whatever labels provide_feedback and add_training_example are
\* called with
C11_NoSentinelLabel ==
  \A intent \in LabelsOf(training_data) : intent \notin {s_unknown, s_error}

(* ------------------- validation and the tables (C12) ------------------- *)

\* C12: provide_feedback with a text or a label that is empty or only white
\* space returns False and changes nothing: the queries log (as the connection
\* sees it and as committed), training_data, the model, is_trained and the
\* model file are as before the call, and no training is started.
C12_BlankFeedbackRejected ==
  [][\A text \in RejectTexts : \A label \in RejectLabels :
       (FeedbackCall(text, label) /\ (Strip(text) = <<>> \/ Strip(label) = <<>>)) =>
         /\ ~call'.ok
         /\ call'.done
         /\ pc' = "idle"
         /\ UNCHANGED <<queries, queries_disk, training_data, model, is_trained,
                        model_file>>]_vars

\* a rejected provide_feedback(x, blank) while the log holds a row for x
C12_Witness ==
  /\ call.op = "feedback"
  /\ call.done
  /\ ~call.ok
  /\ Strip(call.text) # <<>>
  /\ Strip(call.label) = <<>>
  /\ UpdateTargets(queries, call.text) # {}
  /\ \A i \in 1..Len(queries) : queries[i].correct_intent = None

(* ------------------------ retraining (C13, C18) ------------------------ *)

\* C13: when training_data holds at least two distinct labels and every label
\* has at least min_samples_per_class rows, the training that
\* add_training_example or provide_feedback starts after its insert succeeds
\* and the call ends with is_trained True, also in a process that started with
\* a model file it could not load.
C13_AdequateStoreTrains ==
  (/\ call.op \in {"add", "feedback"}
   /\ call.done
   /\ call.inserted
   /\ ShouldRetrain(training_data)) => (call.train = "ok" /\ is_trained)

(* ------------------ the paths of predict_intent (C14-C17) -------------- *)

\* C14: for a text that is empty, only white space, only punctuation, or made
\* of tokens of at most two characters (a text the normalizer maps to the
\* empty string), predict_intent returns (unknown, None, unknown, 0.0), writes
\* one queries row with predicted_intent unknown and confidence 0.0, and calls
\* neither the classifier nor the fallback matcher.
C14_EmptyTextIsUnknown ==
  (call.op = "predict" /\ PreprocessText(call.text) = <<>>) =>
    /\ call.ret = Tuple4(s_unknown, None, "unknown", 0)
    /\ ~call.classifier
    /\ ~call.fallback
    /\ call.inserted
    /\ LastQuery.text = call.text
    /\ LastQuery.predicted_intent = s_unknown
    /\ LastQuery.confidence = 0

\* the confidence handed to _fallback_intent by the call: the classifier's,
\* or 0.0 when the classifier was not called
BaseConfidence == IF call.classifier THEN call.cls.conf ELSE 0

\* C15: when there is no usable classifier, or the classifier's confidence is
\* below the threshold, and the fallback matcher finds a trigger in the text,
\* the confidence returned is the larger of the classifier's confidence and
\* 0.8, so never below 0.8.
C15_FallbackHitAtLeastBoost ==
  (/\ call.op = "predict"
   /\ call.path \in {"no_classifier", "low_confidence"}
   /\ SomeTrigger(call.text)) =>
     /\ call.fallback
     /\ call.ret.confidence >= FallbackBoost
     /\ call.ret.confidence >= BaseConfidence
     /\ call.ret.confidence \in {BaseConfidence, FallbackBoost}

\* the classifier answered "Hello!" with confidence 0.3: 0.8 is returned
C15_Witness ==
  /\ call.op = "predict"
  /\ call.path = "low_confidence"
  /\ call.text = t_Hello
  /\ call.cls.conf < confidence_threshold
  /\ call.ret.confidence = FallbackBoost

\* C16: when the fallback matcher is consulted and no trigger is in the text,
\* predict_intent returns (unknown, None, unknown, c): c is the confidence the
\* classifier returned for the text; it is 0.0 when there is no trained
\* classifier, and then the classifier is not called at all (and 0.0 where the
\* classifier raised and so returned no confidence).
C16_FallbackMissIsUnknown ==
  (call.op = "predict" /\ call.fallback /\ ~SomeTrigger(call.text)) =>
    /\ call.ret.intent = s_unknown
    /\ call.ret.entity = None
    /\ call.ret.intent_type = "unknown"
    /\ call.path = "low_confidence" =>
         (call.classifier /\ call.ret.confidence = call.cls.conf)
    /\ call.path = "no_classifier" => (~call.classifier /\ call.ret.confidence = 0)
    /\ call.path = "exception" => call.ret.confidence = 0
    /\ call.path \in {"low_confidence", "no_classifier", "exception"}
    /\ ~Usable(call.was_trained, model) => call.path = "no_classifier"

\* the classifier answered "xyzzy" with a confidence below the threshold and
\* above 0.0, and that confidence came back with unknown
C16_Witness ==
  /\ call.op = "predict"
  /\ call.path = "low_confidence"
  /\ call.text = t_xyzzy
  /\ call.cls.conf > 0
  /\ call.ret = Tuple4(s_unknown, None, "unknown", call.cls.conf)

\* C17: when the trained classifier answers with a confidence of at least
\* confidence_threshold, predict_intent returns the classifier's label as the
\* intent and the classifier's confidence: the fallback matcher is not
\* consulted, and _resolve_intent does not replace the label.
C17_ConfidentAnswerKept ==
  (/\ call.op = "predict"
   /\ call.classifier
   /\ ~call.cls.raises
   /\ call.cls.conf >= confidence_threshold) =>
     /\ call.path = "confident"
     /\ ~call.fallback
     /\ call.ret.intent = call.cls.label
     /\ call.ret.confidence = call.cls.conf

\* the classifier answered "Hello!" with exit at exactly the threshold: exit
\* is returned, though the fallback matcher would have said greeting
C17_Witness ==
  /\ call.op = "predict"
  /\ call.text = t_Hello
  /\ call.classifier
  /\ call.cls = Answer(s_exit, confidence_threshold)
  /\ call.ret = Tuple4(s_exit, Some(s_terminate), "exit_command", confidence_threshold)
  /\ FallbackIntent(call.text, 0).intent = s_greeting

(* ---------------------- silent failures (C18) -------------------------- *)

\* C18: whenever provide_feedback has inserted the new training_data row it
\* returns True, whatever became of the training it started: not attempted,
\* refused, raised inside fit, or fitted and then not written to the model
\* file. After a failed write the model in memory is the fitted one and
\* is_trained is True.
C18_FeedbackTrueAfterInsert ==
  (call.op = "feedback" /\ call.inserted /\ call.done) =>
    /\ call.ok
    /\ pc = "idle"
    /\ call.train \in {"skipped", "insufficient", "sparse", "raised", "ok"}
    /\ call.save = "failed" =>
         (call.train = "ok" /\ is_trained /\ model = Fitted(training_data))

\* provide_feedback returned True after its row was inserted, the model was
\* fitted and the write of the model file failed
C18_Witness ==
  /\ call.op = "feedback"
  /\ call.inserted
  /\ call.done
  /\ call.ok
  /\ call.save = "failed"
  /\ is_trained
  /\ model_file # model

(* ----------------------- training_data (C19, C20) ---------------------- *)

\* the step is the call add_training_example(text, label)
AddCall(text, label) ==
  /\ pc = "idle"
  /\ call'.op = "add"
  /\ call'.text = text
  /\ call'.label = label
  /\ AddTrainingExample(text, label)

\* a row with a non-empty text that the normalizer leaves as it is, and a
\* non-empty label in lower case
RowNormal(row) ==
  /\ row.text # <<>>
  /\ PreprocessText(row.text) = row.text
  /\ row.intent # <<>>
  /\ Lower(row.intent) = row.intent

SeedRowsNormal == \A i \in 1..Len(InitialRows) : RowNormal(InitialRows[i])

\* C19: every training_data row has a non-empty text that is a fixed point of
\* the normalizer and a non-empty lower-case intent; and a call of
\* add_training_example or provide_feedback whose text normalizes to the empty
\* string or whose label is blank returns False and adds no row.
C19_RowsNormalized ==
  /\ [](/\ training_data.seeded => SeedRowsNormal
        /\ \A i \in 1..Len(training_data.rest) : RowNormal(training_data.rest[i]))
  /\ [][\A text \in StoreTexts : \A label \in StoreLabels :
          LET rejected == PreprocessText(text) = <<>> \/ Strip(label) = <<>>
          IN /\ AddCall(text, label) =>
                  /\ call'.inserted <=> ~rejected
                  /\ call'.ok <=> ~rejected
                  /\ ~rejected =>
                       NumRows(training_data') = NumRows(training_data) + 1
             /\ ((AddCall(text, label) \/ FeedbackCall(text, label)) /\ rejected) =>
                  /\ training_data' = training_data
                  /\ ~call'.inserted
                  /\ ~call'.ok]_vars

\* "Play it!" was stored as "play", and a call with a text that normalizes to
\* the empty string has just been turned away
C19_Witness ==
  /\ call.op \in {"add", "feedback"}
  /\ call.done
  /\ ~call.inserted
  /\ ~call.ok
  /\ call.text = t_hi
  /\ Strip(call.label) # <<>>
  /\ \E i \in 1..Len(training_data.rest) :
       /\ training_data.rest[i].text = PreprocessText(t_PlayIt)
       /\ training_data.rest[i].text # t_PlayIt

\* C20: training_data is append-only: no step of predict_intent,
\* provide_feedback, add_training_example, of a start or of the end of the
\* process removes a row or changes the text, intent or source of a row; the
\* rows before the step are the first rows after it.
C20_AppendOnly ==
  [][LET old == Rows(training_data)
         new == Rows(training_data')
     IN /\ Len(old) <= Len(new)
        /\ SubSeq(new, 1, Len(old)) = old]_vars

\* a process starting without a model file on a table that holds the seeded
\* rows and rows added since: _add_initial_examples runs and keeps them
C20_Witness ==
  /\ call.op = "init"
  /\ pc = "train"
  /\ ~ModelExists(model_file)
  /\ training_data.seeded
  /\ training_data.rest # <<>>
  /\ queries # <<>>

(* --------------------- the fallback matcher (C21, C30) ----------------- *)

\* the labels of the fallback table in their fixed order
LabelOrder == <<s_greeting, s_get_time, s_get_weather, s_system_info, s_exit, s_get_info>>

\* a trigger of the j-th label occurs in the lower-cased text
LabelOccurs(j, text) ==
  \E k \in 1..Len(common_patterns[j][2]) :
    Contains(Lower(text), common_patterns[j][2][k])

\* C21: _fallback_intent returns the first label, in the order greeting,
\* get_time, get_weather, system_info, exit, get_info, that has a trigger
\* occurring as a substring of the lower-cased raw text; when triggers of
\* several labels occur the earliest label in that order wins, and unknown
\* (with entity None, type unknown and the confidence passed in) is returned
\* only when no trigger of any label occurs.
C21_FirstLabelWins ==
  call.op = "fallback" =>
    /\ \A j \in 1..Len(LabelOrder) :
         (LabelOccurs(j, call.text) /\ \A i \in 1..(j - 1) : ~LabelOccurs(i, call.text)) =>
           /\ call.ret.intent = LabelOrder[j]
           /\ common_patterns[j][1] = LabelOrder[j]
    /\ (\A j \in 1..Len(LabelOrder) : ~LabelOccurs(j, call.text)) <=>
         call.ret.intent = s_unknown
    /\ call.ret.intent = s_unknown =>
         call.ret = Tuple4(s_unknown, None, "unknown", call.cls.conf)
    /\ Len(common_patterns) = Len(LabelOrder)

\* "STOP clock": exit's trigger comes first in the text, get_time comes first
\* in the table, and get_time is returned
C21_Witness ==
  /\ call.op = "fallback"
  /\ call.text = w_STOP \o <<" ">> \o w_clock
  /\ LabelOccurs(2, call.text)
  /\ LabelOccurs(5, call.text)
  /\ call.ret.intent = s_get_time

(* --------------------------- the normalizer (C22) ---------------------- *)

\* C22: the normalizer is idempotent: applied to a string it returned, it
\* returns that string; the string has no upper-case letter, no punctuation,
\* no white space but single blanks between words, and no word of fewer than
\* three characters.
C22_NormalizerIdempotent ==
  call.op = "preprocess" =>
    /\ PreprocessText(call.label) = call.label
    /\ Lower(call.label) = call.label
    /\ PunctToSpace(call.label) = call.label
    /\ Strip(call.label) = call.label
    /\ \A i \in 1..Len(call.label) : IsSpace(call.label[i]) =>
         (call.label[i] = " " /\ ~IsSpace(call.label[i + 1]))
    /\ LET ws == Split(call.label)
       IN \A i \in 1..Len(ws) : Len(ws[i]) > 2

\* "Abc!de" loses its upper case, its punctuation and its short word
C22_Witness ==
  /\ call.op = "preprocess"
  /\ call.text = p_Abc \o p_bang \o p_de
  /\ call.label = <<"a", "b", "c">>

(* ------------------- training and the model file (C23, C24, C26) ------- *)

\* C23: a newly fitted model is written to the model file before is_trained
\* and the model that predict_intent uses are updated: in no state is
\* is_trained True with a fitted model in memory that the model file does not
\* hold.
C23_SavedBeforeTrained ==
  (is_trained /\ model.kind = "fitted") => model_file = model

\* the store has at least two labels, and min_samples_per_class rows of each
StoreAdequate(td) ==
  LET rows == Rows(td)
      labels == {rows[i].intent : i \in 1..Len(rows)}
  IN /\ Cardinality(labels) >= 2
     /\ \A l \in labels :
          Cardinality({i \in 1..Len(rows) : rows[i].intent = l}) >= min_samples_per_class

\* C24: after add_training_example or provide_feedback has inserted a row,
\* _train_and_save_model is called if and only if training_data then holds at
\* least two distinct intents and every intent in it, a newly introduced one
\* included, has at least min_samples_per_class rows; otherwise the call
\* returns with no training and no save, and the model, the model file and
\* is_trained are as before.
C24_RetrainGate ==
  [][\A text \in LearnTexts : \A label \in InputLabels :
       ((AddCall(text, label) \/ FeedbackCall(text, label)) /\ call'.inserted) =>
         /\ pc' = "train" <=> StoreAdequate(training_data')
         /\ pc' = "train" => ~call'.done
         /\ pc' # "train" =>
              /\ pc' = "idle"
              /\ call'.done
              /\ call'.train = "skipped"
              /\ call'.save = "none"
              /\ UNCHANGED <<model, model_file, is_trained>>]_vars

\* the first row of a new label was inserted next to the seeded rows, which
\* alone would do for a training: none is started and the model stays
C24_Witness ==
  /\ call.op \in {"add", "feedback"}
  /\ call.inserted
  /\ call.done
  /\ call.train = "skipped"
  /\ call.label = l_music
  /\ CountOf(training_data, Lower(l_music)) = 1
  /\ \A l \in SeedLabels : CountOf(training_data, l) >= min_samples_per_class
  /\ is_trained
  /\ model_file = model

(* ------------------- what predict_intent returns (C25) ----------------- *)

\* C25: every 4-tuple that predict_intent returns with an intent other than
\* unknown has a confidence of at least confidence_threshold, on the confident
\* path, on a fallback match and on the exception path; and the intent error
\* is never returned.
C25_ConfidentUnlessUnknown ==
  call.op = "predict" =>
    /\ call.ret.intent # s_unknown => call.ret.confidence >= confidence_threshold
    /\ call.ret.intent # s_error

\* C26: is_trained is True only while a model object is held (self.model is
\* not None); after a start that found a model file it could not load,
\* is_trained is False.
C26_TrainedHasModel ==
  is_trained => model.kind # "none"

(* --------------------- feedback that fails (C27) ----------------------- *)

\* C27: a provide_feedback call that returns False has changed nothing
\* durable: when it returns, the committed queries rows and training_data are
\* as before the call, and no later step (the commit of the next
\* predict_intent, for one) makes a correct_intent of a committed row differ
\* from what it was when the call returned.
C27_FailedFeedbackLeavesNothing ==
  [][/\ \A fb \in LogFeedback :
          (FeedbackCall(fb[1], fb[2]) /\ ~call'.ok) =>
            (queries_disk' = queries_disk /\ training_data' = training_data)
     /\ (call.op = "feedback" /\ call.done /\ ~call.ok) =>
          \A i \in 1..Len(queries_disk) :
            /\ i <= Len(queries_disk')
            /\ queries_disk'[i].correct_intent = queries_disk[i].correct_intent]_vars

(* ---------------------- the main loop (C28, C29) ----------------------- *)

\* C28: in the main loop an utterance is passed to predict_intent only if
\* voice.is_active was True when it was dispatched; the utterance that
\* activates the assistant (the hotword heard while inactive) and the
\* utterance 'deactivate' are not passed to predict_intent, so that they
\* produce no queries row: a step that calls predict_intent or adds a queries
\* row is the dispatch of a text heard while active, which is not 'deactivate'
\* and is the text of the call and of the row.
C28_OnlyActiveCommandsPredicted ==
  [][(call' # call \/ queries' # queries) =>
       (\/ pc # "idle"
        \/ /\ core.pc = "heard"
           /\ core.is_active
           /\ core.heard.some
           /\ Lower(core.heard.val) # s_deactivate
           /\ call'.op = "predict"
           /\ call'.text = core.heard.val
           /\ core'.processed \in {"command", "exit"}
           /\ Len(queries') <= Len(queries) + 1
           /\ queries' # queries =>
                /\ SubSeq(queries', 1, Len(queries)) = queries
                /\ queries'[Len(queries')].text = core.heard.val)]_vars

\* the hotword was heard while active and went to predict_intent as a command,
\* after an activation and with a row in the log
C28_Witness ==
  /\ core.pc = "loop"
  /\ core.processed = "command"
  /\ core.was_active
  /\ core.heard = Some(u_HeyGhost)
  /\ call.op = "predict"
  /\ call.text = u_HeyGhost
  /\ queries # <<>>
  /\ LastQuery.text = u_HeyGhost

\* C29: after a command recognized as exit, or the utterance 'deactivate',
\* _is_running and voice.is_active are both False and the loop performs no
\* further listen cycle: its next steps are the end of the while loop and the
\* finally block; close() is called once, when the loop has ended, and then
\* the recognizer's connection is closed.
C29_StopsAndClosesOnce ==
  /\ [](core.processed \in {"exit", "deactivate"} =>
          (~core.is_running /\ ~core.is_active))
  /\ [][core.processed \in {"exit", "deactivate"} =>
          (core'.listens = core.listens /\ core'.pc \in {"finally", "done"})]_vars
  /\ [](core.processed \in {"exit", "deactivate"} =>
          /\ core.closes <= 1
          /\ core.pc = "done" <=> core.closes = 1
          /\ core.open <=> core.closes = 0)

(* ----------------------- the trigger phrases (C30) --------------------- *)

\* C30: every trigger phrase of the fallback table is effective: an utterance
\* that is exactly the phrase, in any letter case, given to predict_intent
\* while there is no trained classifier, reaches the fallback matcher, is
\* matched there, and is not returned as unknown.
C30_TriggersEffective ==
  (/\ call.op = "predict"
   /\ call.text \in PhraseTexts
   /\ ~call.classifier) =>
     /\ call.fallback
     /\ FallbackIntent(call.text, 0).intent # s_unknown
     /\ call.ret.intent # s_unknown

====
